---- MODULE Spec2Model ----
(***************************************************************************)
(* DatasetBlender of src/src/lassl/blender.py: the constructor (weight     *)
(* derivation, normalisation, the greedy index build), __len__ and         *)
(* __getitem__.                                                            *)
(*                                                                         *)
(* A source dataset is modelled by its length; the sample read from it by  *)
(* the pair (source, local index).  Positions and source numbers are       *)
(* 0-based as in the code, so arrays are functions on 0..n-1.              *)
(*                                                                         *)
(* Arithmetic.  The code computes in float64.  A weight is modelled as the *)
(* exact fraction num[k] / den, and the inputs are restricted (ExactInputs)*)
(* to those whose weight total is a power of two (or is rejected), where   *)
(* every float64 division, product and difference of the code is exact:    *)
(* on these inputs the integer comparisons below are the code's float      *)
(* comparisons.  The build is done by the Python _build_blending_indices   *)
(* (the branch taken when get_datasets_utils() returns None).              *)
(***************************************************************************)
EXTENDS Integers, Sequences, FiniteSets, TLC

\* Bounds of the general input family.
MaxSources == 2
MaxLen == 4
MaxWeight == 2
\* Bounds of the skewed family: one heavy source among sources of length 1.
MaxSkewSources == 7
MaxHeavyLen == 18
MaxHeavyWeight == 26
\* The number of __len__ / __getitem__ calls followed on one view.
MaxCalls == 3

VARIABLES
    datasets,               \* self.datasets: source k |-> len(datasets[k])
    weights,                \* the weights argument: [none, vals]
    pc,                     \* "new", "constructed", or the error that ended __init__
    size,                   \* self.size
    dataset_index,          \* self.dataset_index
    dataset_sample_index,   \* self.dataset_sample_index
    ret,                    \* what the latest __len__ / __getitem__ call returned
    first,                  \* what the first __getitem__ call on the view returned
    calls                   \* the number of __len__ / __getitem__ calls made so far

vars == <<datasets, weights, pc, size, dataset_index, dataset_sample_index, ret, first,
          calls>>

----------------------------------------------------------------------------
\* Helpers

Max(a, b) == IF a >= b THEN a ELSE b

\* The empty array (a function on 0..-1).
Empty == [i \in {} |-> 0]

\* len(a) of an array on 0..n-1.
Length(a) == Cardinality(DOMAIN a)

\* sum(lengths) / np.sum(weights): the sum of a[0..n-1].
RECURSIVE SumUpTo(_, _)
SumUpTo(a, n) == IF n = 0 THEN 0 ELSE a[n - 1] + SumUpTo(a, n - 1)

Sum(a) == SumUpTo(a, Length(a))

IsPow2(x) == x \in {1, 2, 4, 8, 16, 32, 64, 128}

\* The number of positions i < p with a[i] = k.
CountBefore(a, p, k) == Cardinality({i \in 0..(p - 1) : a[i] = k})

----------------------------------------------------------------------------
\* DatasetBlender._normalize_weight (the assert is the caller's guard SumPositive)

SumPositive(w) == Sum(w.num) > 0

NormalizeWeight(w) == [num |-> w.num, den |-> Sum(w.num)]

\* weights = [length / self.size for length in lengths]
MakeWeights(lengths, sz) == [num |-> lengths, den |-> sz]

----------------------------------------------------------------------------
\* DatasetBlender._build_blending_indices

\* Mutant: the weight is not scaled by the position.
Error_Unscaled(w, current_samples, k, scale) ==
    w.num[k] - current_samples[k] * w.den

\* error = weights[k] * sample_idx_double - current_samples[k], times w.den
Error(w, current_samples, k, scale) ==
    w.num[k] * scale - current_samples[k] * w.den

\* Mutant: the comparison is turned round, the scan keeps the least error.
Better_Less(e, max_error) == e < max_error

\* Mutant: the comparison is not strict, a tie goes to the later source.
Better_OrEqual(e, max_error) == e >= max_error

\* Whether the scan replaces the running maximum: `if error > max_error`.
Better(e, max_error) == e > max_error

\* The inner loop over dataset_idx, from k on, with the running maximum at m.
RECURSIVE ScanMax(_, _, _, _, _, _)
ScanMax(w, current_samples, num_datasets, scale, k, m) ==
    IF k >= num_datasets THEN m
    ELSE ScanMax(w, current_samples, num_datasets, scale, k + 1,
                 IF Better(Error(w, current_samples, k, scale),
                           Error(w, current_samples, m, scale))
                 THEN k ELSE m)

\* max_error_index = 0, then the scan.
MaxErrorIndex(w, current_samples, num_datasets, scale) ==
    ScanMax(w, current_samples, num_datasets, scale, 0, 0)

\* sample_idx_double = max(sample_idx, 1.0)
SampleIdxDouble(sample_idx) == Max(sample_idx, 1)

\* Mutant: the count is stored after it was incremented.
StoredSample_Incremented(current_samples, m) == current_samples[m] + 1

\* dataset_sample_index[sample_idx] = current_samples[max_error_index]
StoredSample(current_samples, m) == current_samples[m]

\* The outer loop from sample_idx on.
RECURSIVE BuildLoop(_, _, _, _, _, _, _)
BuildLoop(di, dsi, w, num_datasets, sz, sample_idx, current_samples) ==
    IF sample_idx >= sz THEN [dataset_index |-> di, dataset_sample_index |-> dsi]
    ELSE LET m == MaxErrorIndex(w, current_samples, num_datasets,
                                SampleIdxDouble(sample_idx))
         IN  BuildLoop([di EXCEPT ![sample_idx] = m],
                       [dsi EXCEPT ![sample_idx] = StoredSample(current_samples, m)],
                       w, num_datasets, sz, sample_idx + 1,
                       [current_samples EXCEPT ![m] = @ + 1])

BuildBlendingIndices(di, dsi, w, num_datasets, sz) ==
    BuildLoop(di, dsi, w, num_datasets, sz, 0, [k \in 0..(num_datasets - 1) |-> 0])

\* Mutant: the arrays are allocated one entry too long.
Zeros_OneMore(sz) == [i \in 0..sz |-> 0]

\* np.zeros(self.size)
Zeros(sz) == [i \in 0..(sz - 1) |-> 0]

----------------------------------------------------------------------------
\* The weights the build of the current inputs runs with (a local of __init__).

GivenWeights ==
    IF weights.none THEN MakeWeights(datasets, Sum(datasets))
    ELSE [num |-> weights.vals, den |-> 1]

Normalized == NormalizeWeight(GivenWeights)

NumDatasets == Length(datasets)

----------------------------------------------------------------------------
\* Inputs

NoRet == [op |-> "none", idx |-> 0, status |-> "none", source |-> -1, local |-> -1, value |-> -1]

\* float64 arithmetic is exact on these inputs (see the header).
ExactInputs(ds, wt) ==
    IF wt.none THEN Sum(ds) = 0 \/ IsPow2(Sum(ds))
    ELSE Sum(wt.vals) <= 0 \/ IsPow2(Sum(wt.vals))

Fresh ==
    /\ pc = "new"
    /\ size = 0
    /\ dataset_index = Empty
    /\ dataset_sample_index = Empty
    /\ ret = NoRet
    /\ first = NoRet
    /\ calls = 0

\* Any source list and any weights argument (absent, matching or mismatching in
\* count, with zero and negative entries) within the bounds.
InitGeneral ==
    /\ \E n \in 0..MaxSources : datasets \in [0..(n - 1) -> 0..MaxLen]
    /\ \/ weights = [none |-> TRUE, vals |-> Empty]
       \/ \E m \in 0..MaxSources :
            \E v \in [0..(m - 1) -> (-1)..MaxWeight] :
                weights = [none |-> FALSE, vals |-> v]
    /\ ExactInputs(datasets, weights)
    /\ Fresh

\* One heavy source of length L and weight h at place p among sources of
\* length 1 and weight 1.
InitSkew ==
    /\ \E n \in 1..MaxSkewSources : \E p \in 0..(n - 1) :
         \E L \in 0..MaxHeavyLen : \E h \in 1..MaxHeavyWeight :
            /\ datasets = [k \in 0..(n - 1) |-> IF k = p THEN L ELSE 1]
            /\ weights = [none |-> FALSE,
                          vals |-> [k \in 0..(n - 1) |-> IF k = p THEN h ELSE 1]]
    /\ ExactInputs(datasets, weights)
    /\ Fresh

Init == InitGeneral

InitBuild == InitGeneral \/ InitSkew

----------------------------------------------------------------------------
\* DatasetBlender.__init__

Construct ==
    /\ pc = "new"
    /\ size' = Sum(datasets)
    /\ IF weights.none /\ NumDatasets > 0 /\ Sum(datasets) = 0
       THEN \* length / self.size divides by zero
            /\ pc' = "ZeroDivisionError"
            /\ UNCHANGED <<dataset_index, dataset_sample_index>>
       ELSE IF NumDatasets # Length(GivenWeights.num)
       THEN \* assert num_datasets == len(weights)
            /\ pc' = "CountMismatch"
            /\ UNCHANGED <<dataset_index, dataset_sample_index>>
       ELSE IF ~SumPositive(GivenWeights)
       THEN \* assert sum_weights > 0.0
            /\ pc' = "InvalidWeight"
            /\ UNCHANGED <<dataset_index, dataset_sample_index>>
       ELSE LET sz == Sum(datasets)
                built == BuildBlendingIndices(Zeros(sz), Zeros(sz), Normalized,
                                              NumDatasets, sz)
            IN  /\ pc' = "constructed"
                /\ dataset_index' = built.dataset_index
                /\ dataset_sample_index' = built.dataset_sample_index
    /\ UNCHANGED <<datasets, weights, ret, first, calls>>

----------------------------------------------------------------------------
\* DatasetBlender.__len__

LenCall ==
    /\ pc = "constructed"
    /\ calls < MaxCalls
    /\ calls' = calls + 1
    /\ ret' = [NoRet EXCEPT !.op = "len", !.status = "ok", !.value = size]
    /\ UNCHANGED <<datasets, weights, pc, size, dataset_index, dataset_sample_index, first>>

----------------------------------------------------------------------------
\* DatasetBlender.__getitem__

\* numpy indexing: a negative index counts from the end.
Position(idx, n) == IF idx < 0 THEN idx + n ELSE idx

\* Mutant: the local index is not wrapped.
LocalIndex_NoWrap(sample_idx, dataset_len) == sample_idx

\* int(sample_idx % dataset_len)
LocalIndex(sample_idx, dataset_len) == sample_idx % dataset_len

\* dataset_len = max(len(self.datasets[dataset_idx]), 1)
DatasetLen(ds, dataset_idx) == Max(ds[dataset_idx], 1)

\* The outcome of __getitem__(idx).
GetItem(idx) ==
    LET pos == Position(idx, Length(dataset_index))
    IN  IF pos \notin DOMAIN dataset_index
        THEN [NoRet EXCEPT !.op = "get", !.idx = idx, !.status = "IndexError"]
        ELSE LET dataset_idx == dataset_index[pos]
                 dataset_len == DatasetLen(datasets, dataset_idx)
                 sample_idx == dataset_sample_index[pos]
                 local == LocalIndex(sample_idx, dataset_len)
             IN  [NoRet EXCEPT !.op = "get", !.idx = idx,
                               \* the source has no element at local when it is empty
                               !.status = IF local < datasets[dataset_idx]
                                          THEN "ok" ELSE "SourceIndexError",
                               !.source = dataset_idx,
                               !.local = local]

\* Mutant: a get advances the stored sample index of the position it read.
Get_Advancing(idx) ==
    /\ pc = "constructed"
    /\ calls < MaxCalls
    /\ calls' = calls + 1
    /\ ret' = GetItem(idx)
    /\ first' = IF first.op = "none" THEN GetItem(idx) ELSE first
    /\ dataset_sample_index' =
         IF Position(idx, Length(dataset_index)) \in DOMAIN dataset_index
         THEN [dataset_sample_index EXCEPT ![Position(idx, Length(dataset_index))] = @ + 1]
         ELSE dataset_sample_index
    /\ UNCHANGED <<datasets, weights, pc, size, dataset_index>>

Get(idx) ==
    /\ pc = "constructed"
    /\ calls < MaxCalls
    /\ calls' = calls + 1
    /\ ret' = GetItem(idx)
    /\ first' = IF first.op = "none" THEN GetItem(idx) ELSE first
    /\ UNCHANGED <<datasets, weights, pc, size, dataset_index, dataset_sample_index>>

----------------------------------------------------------------------------
Next ==
    \/ Construct
    \/ LenCall
    \/ \E idx \in (-1)..size : Get(idx)

Spec == Init /\ [][Next]_vars

\* Construction alone, over the general and the skewed inputs.
NextBuild == Construct

SpecBuild == InitBuild /\ [][NextBuild]_vars

----------------------------------------------------------------------------
\* Vocabulary of the properties

Built == pc = "constructed"

Sources == 0..(NumDatasets - 1)

Positions == 0..(size - 1)

\* Every weight the build runs with is non-negative (a valid weight vector).
ValidWeights == \A k \in Sources : Normalized.num[k] >= 0

\* The number of the first P positions that draw from source k.
Picks(P, k) == CountBefore(dataset_index, P, k)

\* Picks(P, k) - weights[k] * P, times the weights' denominator.
Surplus(P, k) == Picks(P, k) * Normalized.den - Normalized.num[k] * P

\* r is an integer nearest to weights[k] * size.
Nearest(r, k) ==
    LET d == 2 * (r * Normalized.den - Normalized.num[k] * size)
    IN  d <= Normalized.den /\ -d <= Normalized.den

\* round(weights[k] * size), a half rounded up / a half rounded to even.
RoundHalfUp(k) ==
    (2 * Normalized.num[k] * size + Normalized.den) \div (2 * Normalized.den)

RoundHalfEven(k) ==
    LET q == (Normalized.num[k] * size) \div Normalized.den
        rem == (Normalized.num[k] * size) % Normalized.den
    IN  IF 2 * rem < Normalized.den THEN q
        ELSE IF 2 * rem > Normalized.den THEN q + 1
        ELSE IF q % 2 = 0 THEN q ELSE q + 1

\* The error of source k at position i, from the picks before i, times the denominator.
ErrorAt(i, k) == Normalized.num[k] * Max(i, 1) - Picks(i, k) * Normalized.den

----------------------------------------------------------------------------
\* C1, as stated: after the build, for every valid weight vector, every prefix
\* length P in 1..S and every source k, the number of the first P positions
\* that draw from k differs from weights[k] * P by at most 1.
C1_PrefixWithinOne ==
    (Built /\ ValidWeights) =>
        \A P \in 1..size : \A k \in Sources :
            /\ Surplus(P, k) <= Normalized.den
            /\ -Surplus(P, k) <= Normalized.den

\* C1, amended: after the build, for every valid weight vector, every prefix
\* length P and every source k, the number of the first P positions that draw
\* from k exceeds weights[k] * P by at most 1 and falls short of it by at most
\* N - 1 (so by at most 1 only for N <= 2 sources).
C1_PrefixDiscrepancy ==
    (Built /\ ValidWeights) =>
        \A P \in 1..size : \A k \in Sources :
            /\ Surplus(P, k) <= Normalized.den
            /\ -Surplus(P, k) <= (NumDatasets - 1) * Normalized.den

\* A build with positive weights in which some prefix holds more than one pick
\* too few of a source.
C1_Witness ==
    /\ Built
    /\ \A k \in Sources : Normalized.num[k] > 0
    /\ \E P \in 1..size : \E k \in Sources : -Surplus(P, k) > Normalized.den

----------------------------------------------------------------------------
\* C2, as stated: after the build the per-source counts sum to exactly S and
\* each source's count is within 1 of round(weights[k] * S) (a half rounded
\* up or to even, whichever suits).
C2_CoverageWithinOne ==
    (Built /\ ValidWeights) =>
        /\ SumUpTo([k \in Sources |-> Picks(size, k)], NumDatasets) = size
        /\ \A k \in Sources :
             \E r \in {RoundHalfUp(k), RoundHalfEven(k)} :
                Picks(size, k) - r \in {-1, 0, 1}

\* C2, amended: after the build the per-source counts sum to exactly S, and
\* each source's count is at most 1 above and at most N - 1 below
\* round(weights[k] * S), whichever way a half is rounded.
C2_Coverage ==
    (Built /\ ValidWeights) =>
        /\ SumUpTo([k \in Sources |-> Picks(size, k)], NumDatasets) = size
        /\ \A k \in Sources : \A r \in 0..(size + 1) :
             Nearest(r, k) =>
                /\ Picks(size, k) - r <= 1
                /\ r - Picks(size, k) <= NumDatasets - 1

\* A build with positive weights whose final count of some source is 2 or more
\* below round(weights[k] * S).
C2_Witness ==
    /\ Built
    /\ \A k \in Sources : Normalized.num[k] > 0
    /\ \E k \in Sources : \A r \in {RoundHalfUp(k), RoundHalfEven(k)} :
         r - Picks(size, k) >= 2

----------------------------------------------------------------------------
\* C3: at every position i, with scale = max(i, 1) and allocated[] the counts
\* of the earlier picks, dataset_index[i] is the lowest-numbered source whose
\* error weights[k] * scale - allocated[k] is maximal; equal weights
\* [0.5, 0.5] with S = 4 give dataset_index = [0, 1, 0, 1].
C3_GreedyLowestIndex ==
    Built =>
        /\ \A i \in Positions : \A k \in Sources :
             /\ dataset_index[i] \in Sources
             /\ ErrorAt(i, dataset_index[i]) >= ErrorAt(i, k)
             /\ k < dataset_index[i] => ErrorAt(i, dataset_index[i]) > ErrorAt(i, k)
        /\ (NumDatasets = 2 /\ size = 4 /\ Normalized.num[0] = Normalized.num[1])
             => dataset_index = [i \in 0..3 |-> i % 2]

\* Equal weights [0.5, 0.5] over S = 4 built as 0, 1, 0, 1, the tie at position 0
\* and at position 2 going to source 0.
C3_Witness ==
    /\ Built
    /\ NumDatasets = 2 /\ size = 4
    /\ Normalized.num[0] = 1 /\ Normalized.num[1] = 1 /\ Normalized.den = 2
    /\ ErrorAt(2, 0) = ErrorAt(2, 1)
    /\ dataset_index = [i \in 0..3 |-> i % 2]

----------------------------------------------------------------------------
\* C4: a source whose weight is exactly 0 is never selected: when the weights
\* are valid, source z has weight 0 and another source has a positive weight,
\* no position i has dataset_index[i] = z after the build, wherever z stands
\* in the list.
C4_ZeroWeightNeverSelected ==
    (Built /\ ValidWeights) =>
        \A z \in Sources :
            (Normalized.num[z] = 0 /\ \E k \in Sources : Normalized.num[k] > 0)
                => \A i \in Positions : dataset_index[i] # z

----------------------------------------------------------------------------
\* The weights argument has one weight per source, or is absent.
CountMatches == weights.none \/ Length(weights.vals) = NumDatasets

\* The weight total is <= 0: of the weights given, or, when they are omitted, of
\* the lengths they are derived from.
DegenerateSum ==
    IF weights.none THEN Sum(datasets) <= 0 ELSE Sum(weights.vals) <= 0

\* C5: whenever the weight total is <= 0 (all zeros, an empty list, a negative
\* total, or weights omitted over sources that are all empty), construction
\* ends in the invalid-weight error, builds no index array and returns no view.
C5_DegenerateSumRejected ==
    (pc # "new" /\ CountMatches /\ DegenerateSum) =>
        /\ pc = "InvalidWeight"
        /\ dataset_index = Empty
        /\ dataset_sample_index = Empty

----------------------------------------------------------------------------
\* C6: after the build, for every position i, dataset_sample_index[i] is the
\* number of positions j < i with dataset_index[j] = dataset_index[i]: the
\* values stored for one source are 0, 1, 2, ... in position order, and they
\* are not reduced modulo the source's length.
C6_SampleIndexIsCumulativeCount ==
    Built =>
        \A i \in Positions :
            dataset_sample_index[i] = Picks(i, dataset_index[i])

\* A build that stored, for a source of length L >= 1, a sample index >= L.
C6_Witness ==
    /\ Built /\ ValidWeights
    /\ \E i \in Positions :
         /\ datasets[dataset_index[i]] >= 1
         /\ dataset_sample_index[i] >= datasets[dataset_index[i]]
         /\ dataset_sample_index[i] = Picks(i, dataset_index[i])

----------------------------------------------------------------------------
\* The position a get(idx) that did not fail on idx resolved.
RetPos == Position(ret.idx, size)

\* C7: for every in-range i, get(i) reads source k = dataset_index[i] at local
\* index dataset_sample_index[i] mod max(len(source k), 1); so the j-th
\* position (0-based) assigned to a source of length L >= 1 reads local index
\* j mod L.
C7_LookupWraps ==
    (Built /\ ret.op = "get" /\ ret.status # "IndexError") =>
        /\ ret.source = dataset_index[RetPos]
        /\ ret.local = dataset_sample_index[RetPos] % Max(datasets[ret.source], 1)
        /\ datasets[ret.source] >= 1 =>
              /\ ret.local = Picks(RetPos, ret.source) % datasets[ret.source]
              /\ ret.status = "ok"

\* A source of length 3 that was assigned 7 positions, read at the 7th of them:
\* local index 0 again.
C7_Witness ==
    /\ Built /\ ret.op = "get" /\ ret.status = "ok"
    /\ datasets[ret.source] = 3
    /\ Picks(size, ret.source) = 7
    /\ Picks(RetPos, ret.source) = 6
    /\ ret.local = 0

----------------------------------------------------------------------------
\* C8: after a successful construction, length() is the sum of the source
\* lengths, whatever the weights (given or omitted), both index arrays have
\* exactly that many entries, and no later get call changes the value.
C8_LengthInvariant ==
    Built =>
        /\ size = SumUpTo(datasets, NumDatasets)
        /\ DOMAIN dataset_index = 0..(SumUpTo(datasets, NumDatasets) - 1)
        /\ DOMAIN dataset_sample_index = 0..(SumUpTo(datasets, NumDatasets) - 1)
        /\ ret.op = "len" => ret.value = SumUpTo(datasets, NumDatasets)

\* length() answered after a get call, on a view built with weights that are
\* not proportional to the lengths.
C8_Witness ==
    /\ Built /\ ~weights.none
    /\ datasets # weights.vals
    /\ first.op = "get" /\ first.status = "ok"
    /\ ret.op = "len" /\ ret.value = size /\ size > 0

----------------------------------------------------------------------------
\* C9: a get leaves dataset_index, dataset_sample_index, size and the source
\* list unchanged, and after any sequence of get and length calls get(i)
\* resolves to the same (source, local index) as the first call of get(i) did.
C9_LookupPure ==
    /\ [][Built => UNCHANGED <<dataset_index, dataset_sample_index, size, datasets>>]_vars
    /\ [](ret.op = "get" /\ first.op = "get" /\ ret.idx = first.idx => ret = first)

\* The third call on a view: a get of the position the first call read, after
\* another call between them.
C9_Witness ==
    /\ Built /\ calls >= 3 /\ size >= 2
    /\ first.op = "get" /\ first.status = "ok"
    /\ ret.op = "get" /\ ret.idx = first.idx
    /\ ret.source = first.source /\ ret.local = first.local

----------------------------------------------------------------------------
\* C10: when the weights are omitted and the total length is positive, the
\* build assigns each source k exactly len(source k) positions and the local
\* indices it stores for k are 0 .. len(source k) - 1, each once: no position
\* goes to an empty source, no element is read twice or skipped.
C10_OmittedWeightsExactCover ==
    (Built /\ weights.none /\ size > 0) =>
        /\ \A k \in Sources : Picks(size, k) = datasets[k]
        /\ \A i \in Positions : dataset_sample_index[i] < datasets[dataset_index[i]]
        /\ \A i, j \in Positions :
             (dataset_index[i] = dataset_index[j]
                /\ dataset_sample_index[i] = dataset_sample_index[j]) => i = j

====
